---- MODULE Spec2Model ----
(***************************************************************************)
(* Model of src/streamlit_app.py: the Streamlit dashboard that forwards a  *)
(* hedging-strategy backtest request to an external HTTP service, derives  *)
(* a client-side "Buy & Hold" row from the returned monthly series, and in *)
(* "compare all" mode collects one row per strategy and announces the row  *)
(* with the best Risk-Adjusted value.                                      *)
(*                                                                         *)
(* Numbers.  The script computes with float64.  A monthly stock_pnl value   *)
(* is a decimal: an integer over the unit of its series (1 for whole       *)
(* dollars, 10 for tenths).  A derived quantity is kept as the real number *)
(* its float stands for,  sgn * sqrt(num / den) * 2^exp  (a "Real"         *)
(* record), which is closed under the one division the script performs and *)
(* can be compared exactly; rounding in the last place of such a number is *)
(* not modelled.  It is modelled, bit for bit, where a result consists of  *)
(* rounding and nothing else: the standard deviation of a series of equal  *)
(* values, which is 0 or a tiny positive number according to whether the   *)
(* float mean of the series comes out equal to its values.  NaN (pandas'   *)
(* std of a single observation) is a Real with nan = TRUE.  coverage_ratio *)
(* is kept in hundredths (1.0 is 100).                                     *)
(***************************************************************************)
EXTENDS Integers, Sequences, FiniteSets, TLC

VARIABLES
    strategy,              \* sidebar selectbox (line 25)
    otm_percent,           \* the four optional sliders (lines 37-52)
    spread_width_percent,
    upside_cap_percent,
    coverage_ratio,
    pc,                    \* "idle" | "compare" (inside the loop of line 198) | "done"
    mode,                  \* which button started the current script run
    idx,                   \* position of the loop of line 198 in ALL_STRATEGIES
    sent,                  \* request bodies posted during the current run, in order
    replies,               \* what the script observed of each reply, in order
    comp_results,          \* the list of line 190
    screen,                \* what the run has put on the page, in order
    fault,                 \* "none", or the exception that aborted the run
    series                 \* input of the stand-alone reduction (SpecReduce)

vars == <<strategy, otm_percent, spread_width_percent, upside_cap_percent,
          coverage_ratio, pc, mode, idx, sent, replies, comp_results, screen,
          fault, series>>

sidebar == <<strategy, otm_percent, spread_width_percent, upside_cap_percent,
             coverage_ratio>>

-----------------------------------------------------------------------------
(* Bounds of the model.                                                    *)

\* longest monthly series fed to the stand-alone buy-and-hold reduction
MaxSeriesLen == 4
\* monthly stock_pnl values of the stand-alone reduction (the fixture's)
FixtureValues == {100, -50, 200, -20}

\* monthly stock_pnl series of the replies in the application runs, each with
\* its unit: in whole dollars the empty series, one month, all equal, and two
\* of different positive ratio mean / std; in tenths of a dollar three months
\* of 0.1
AppSeries == {<<1, s>> : s \in {<<>>, <<1>>, <<1, 1>>, <<1, 3>>, <<0, 1, 2>>}}
                 \cup {<<10, <<1, 1, 1>>>>}

-----------------------------------------------------------------------------
(* Program constants.                                                      *)

None == -1                      \* Python None for an unset slider
ALL_STRATEGIES == <<"rolling_atm_puts", "rolling_otm_puts", "rolling_put_spread",
                    "rolling_collar", "rolling_zero_cost_collar">>
StrategyOptions == {ALL_STRATEGIES[i] : i \in 1..Len(ALL_STRATEGIES)}
ticker == "SPY"
contracts == 2
shares == contracts * 100
OtmDefault == 5
SpreadDefault == 5
CapDefault == 10
CoverageDefault == 100          \* 1.0, in hundredths

\* slider positions tried (each slider's default and one other position)
OtmChoices == {5, 15}
SpreadChoices == {5, 1}
CapChoices == {10, 25}
CoverageChoices == {100, 50}

-----------------------------------------------------------------------------
(* Exact numbers.                                                          *)

Sgn(x) == IF x > 0 THEN 1 ELSE IF x < 0 THEN -1 ELSE 0

RECURSIVE Gcd(_, _)
Gcd(a, b) == IF b = 0 THEN a ELSE Gcd(b, a % b)

\* the real number sgn * sqrt(num / den) * 2^exp, num >= 0, den > 0, num / den
\* in lowest terms; Real(s, n, d) is the one with exp = 0
Real(s, n, d) ==
    IF n = 0 THEN [nan |-> FALSE, sgn |-> 0, num |-> 0, den |-> 1, exp |-> 0]
    ELSE [nan |-> FALSE, sgn |-> s, num |-> n \div Gcd(n, d), den |-> d \div Gcd(n, d),
          exp |-> 0]
NaN == [nan |-> TRUE, sgn |-> 0, num |-> 0, den |-> 1, exp |-> 0]
Int2Real(x) == Real(Sgn(x), x * x, 1)
Zero == Int2Real(0)

\* a * 2^e
Scaled(a, e) == IF a.nan \/ a.sgn = 0 THEN a ELSE [a EXCEPT !.exp = @ + e]

\* x / n for integers x and n > 0
Ratio(x, n) == Real(Sgn(x), x * x, n * n)

\* Python's  a > 0 : False for NaN
GtZero(a) == ~a.nan /\ a.sgn = 1

\* a / b for b > 0
Div(a, b) == Scaled(Real(a.sgn, a.num * b.den, a.den * b.num), a.exp - b.exp)

\* a non-zero number with the powers of 4 of num / den moved into exp:
\* 1 <= num / den < 4, so that 2^exp <= |a| < 2^(exp + 1)
RECURSIVE Normal(_)
Normal(a) ==
    IF a.num >= 4 * a.den THEN Normal([a EXCEPT !.den = 4 * @, !.exp = @ + 1])
    ELSE IF a.num < a.den THEN Normal([a EXCEPT !.num = 4 * @, !.exp = @ - 1])
    ELSE a

\* |a| < |b|, |a| = |b| for non-zero numbers
MagLess(a, b) ==
    IF a.exp = b.exp THEN a.num * b.den < b.num * a.den
    ELSE LET x == Normal(a)
             y == Normal(b)
         IN  x.exp < y.exp \/ (x.exp = y.exp /\ x.num * y.den < y.num * x.den)
MagEq(a, b) == ~MagLess(a, b) /\ ~MagLess(b, a)

\* a < b, a = b as real numbers (neither NaN)
RealLess(a, b) ==
    IF a.sgn # b.sgn THEN a.sgn < b.sgn
    ELSE IF a.sgn = 0 THEN FALSE
    ELSE IF a.sgn = 1 THEN MagLess(a, b)
    ELSE MagLess(b, a)
RealEq(a, b) == a.sgn = b.sgn /\ (a.sgn = 0 \/ MagEq(a, b))

-----------------------------------------------------------------------------
(* float64 arithmetic on significands, for the one place where rounding    *)
(* decides a test: pandas' std() of a series of equal values.              *)

\* number of bits of a float64 significand
Precision == 53

\* The element of a one-element set.  { e(v) : v \in {x} } binds v to the
\* value of x, so that x is computed once however often e uses it.
The(S) == CHOOSE v \in S : TRUE

Zeros(k) == [i \in 1..k |-> 0]

\* a + b + c of two bit strings of one length (most significant bit first);
\* the result is one bit longer (the carry out comes first)
RECURSIVE AddBits(_, _, _)
AddBits(a, b, c) ==
    IF Len(a) = 0 THEN <<c>>
    ELSE IF Len(a) = 1 THEN <<(a[1] + b[1] + c) \div 2, (a[1] + b[1] + c) % 2>>
    ELSE LET n == Len(a)
             h == n \div 2
         IN  The({ The({ high \o Tail(low) :
                         high \in {AddBits(SubSeq(a, 1, h), SubSeq(b, 1, h), low[1])} }) :
                   low \in {AddBits(SubSeq(a, h + 1, n), SubSeq(b, h + 1, n), c)} })

\* a - b of two bit strings of one length, a >= b: a + ~b + 1 less the carry
SubBits(a, b) == Tail(AddBits(a, [i \in 1..Len(b) |-> 1 - b[i]], 1))

StripZeros(a) ==
    LET ones == {i \in 1..Len(a) : a[i] = 1}
    IN  IF ones = {} THEN <<>>
        ELSE SubSeq(a, CHOOSE i \in ones : \A j \in ones : i <= j, Len(a))

BitsLess(a, b) ==
    LET differ == {i \in 1..Len(a) : a[i] # b[i]}
    IN  differ # {} /\ LET i == CHOOSE d \in differ : \A j \in differ : d <= j
                       IN  a[i] < b[i]

RECURSIVE BitsToInt(_)
BitsToInt(a) == IF a = <<>> THEN 0 ELSE 2 * BitsToInt(SubSeq(a, 1, Len(a) - 1)) + a[Len(a)]

\* Long division of the bit string a by n, the remainder r < n carried in:
\* the quotient bits (as many as a has) and the remainder left
RECURSIVE LongDiv(_, _, _)
LongDiv(a, n, r) ==
    IF Len(a) = 0 THEN [q |-> <<>>, r |-> r]
    ELSE IF Len(a) = 1
        THEN LET t == 2 * r + a[1]
             IN  IF t >= n THEN [q |-> <<1>>, r |-> t - n] ELSE [q |-> <<0>>, r |-> t]
    ELSE LET h == Len(a) \div 2
         IN  The({ The({ [q |-> left.q \o right.q, r |-> right.r] :
                         right \in {LongDiv(SubSeq(a, h + 1, Len(a)), n, left.r)} }) :
                   left \in {LongDiv(SubSeq(a, 1, h), n, r)} })

\* A positive float64: bits is the significand, Precision bits with the
\* leading 1 first; the value is  1.b2 b3 ... * 2^exp.
Float(bits, e) == [bits |-> bits, exp |-> e]

\* Rounding to nearest, ties to even, of the bit string a (leading 1 first,
\* worth 1.a2 a3 ... * 2^e) followed by a tail that is non-zero iff sticky.
RoundNearestEven(a, sticky, e) ==
    IF Len(a) <= Precision THEN Float(a \o Zeros(Precision - Len(a)), e)
    ELSE LET keep == SubSeq(a, 1, Precision)
             half == a[Precision + 1] = 1
             rest == sticky \/ \E i \in (Precision + 2)..Len(a) : a[i] = 1
             up   == half /\ (rest \/ a[Precision] = 1)
         IN  IF ~up THEN Float(keep, e)
             ELSE The({ IF sum[1] = 1 THEN Float(SubSeq(sum, 1, Precision), e + 1)
                                      ELSE Float(Tail(sum), e) :
                        sum \in {AddBits(keep, Zeros(Precision), 1)} })

\* the float64 nearest to p / q, for integers p > 0 and q > 0 (what parsing
\* the JSON number yields)
RECURSIVE FloatOfRatioAt(_, _, _)
FloatOfRatioAt(p, q, e) ==
    IF p >= 2 * q THEN FloatOfRatioAt(p, 2 * q, e + 1)
    ELSE IF p < q THEN FloatOfRatioAt(2 * p, q, e - 1)
    ELSE The({ RoundNearestEven(<<1>> \o d.q, d.r # 0, e) :
               d \in {LongDiv(Zeros(Precision), q, p - q)} })
FloatOfRatio(p, q) == FloatOfRatioAt(p, q, 0)

FloatLess(x, y) == x.exp < y.exp \/ (x.exp = y.exp /\ BitsLess(x.bits, y.bits))

\* x + y in float64, for x >= y > 0
FloatAdd(x, y) ==
    The({ IF sum[1] = 1 THEN RoundNearestEven(sum, FALSE, x.exp + 1)
                        ELSE The({ RoundNearestEven(t, FALSE, x.exp) : t \in {Tail(sum)} }) :
          sum \in {AddBits(x.bits \o Zeros(x.exp - y.exp),
                           Zeros(x.exp - y.exp) \o y.bits, 0)} })

\* x / n in float64, for x > 0 and an integer n > 0 (float(n) is exact)
FloatDivInt(x, n) ==
    The({ The({ RoundNearestEven(stripped, d.r # 0, x.exp - (Len(d.q) - Len(stripped))) :
                stripped \in {StripZeros(d.q)} }) :
          d \in {LongDiv(x.bits \o Zeros(Precision + 1), n, 0)} })

\* |x - y| for two floats within a few units in the last place of each
\* other, as the integer k with |x - y| = k * 2^exp
FloatGap(x, y) ==
    LET hi    == IF FloatLess(x, y) THEN y ELSE x
        lo    == IF FloatLess(x, y) THEN x ELSE y
        shift == hi.exp - lo.exp
        diff  == SubBits(hi.bits \o Zeros(shift), Zeros(shift) \o lo.bits)
    IN  [k |-> BitsToInt(StripZeros(diff)), exp |-> lo.exp - (Precision - 1)]

\* values.sum() of n copies of x (n < 8: numpy adds them one after another)
RECURSIVE FloatSumOfCopies(_, _)
FloatSumOfCopies(x, n) ==
    IF n = 1 THEN x
    ELSE The({ FloatAdd(s, x) : s \in {FloatSumOfCopies(x, n - 1)} })

\* avg - values for a series of n values all equal to p / unit (p # 0):
\* avg = values.sum() / count in float64; the gap between avg and the value
MeanGap(p, unit, n) ==
    The({ The({ The({ FloatGap(avg, x) : avg \in {FloatDivInt(sum, n)} }) :
                sum \in {FloatSumOfCopies(x, n)} }) :
          x \in {FloatOfRatio(IF p < 0 THEN -p ELSE p, unit)} })

-----------------------------------------------------------------------------
(* Series operations (pandas / builtins used by run_buy_and_hold).  A      *)
(* series is the sequence of its values' numerators; unit is their common  *)
(* denominator.                                                            *)

SeriesUpTo(vals, n) == UNION {[1..k -> vals] : k \in 0..n}

Max2(a, b) == IF a >= b THEN a ELSE b

\* builtin sum(list)
RECURSIVE Sum(_)
Sum(s) == IF s = <<>> THEN 0 ELSE s[1] + Sum(Tail(s))

\* Series.cumsum(): running total, left to right
RECURSIVE CumSumFrom(_, _)
CumSumFrom(acc, s) ==
    IF s = <<>> THEN <<>> ELSE <<acc + s[1]>> \o CumSumFrom(acc + s[1], Tail(s))
CumSum(s) == CumSumFrom(0, s)

RECURSIVE CumMaxFrom(_, _)
CumMaxFrom(m, s) ==
    IF s = <<>> THEN <<>> ELSE <<Max2(m, s[1])>> \o CumMaxFrom(Max2(m, s[1]), Tail(s))

\* a running maximum that starts from 0 instead of the first element
CumMax_FromZero(s) == CumMaxFrom(0, s)

\* Series.cummax(): running maximum, seeded with the first element
CumMax(s) == IF s = <<>> THEN <<>> ELSE CumMaxFrom(s[1], s)

\* elementwise a - b of two series of one length
SeqMinus(a, b) == [i \in 1..Len(a) |-> a[i] - b[i]]

\* Series.max() of a non-empty series
RECURSIVE SeqMax(_)
SeqMax(s) == IF Len(s) = 1 THEN s[1] ELSE Max2(s[1], SeqMax(Tail(s)))

SumSquares(s) == Sum([i \in 1..Len(s) |-> s[i] * s[i]])

\* Series.mean()
Mean(s, unit) == Ratio(Sum(s), Len(s) * unit)

\* Series.std(): sample standard deviation (ddof = 1); NaN for one observation.
\* pandas takes  avg = values.sum() / count,  then
\* sqrt(((avg - values) ** 2).sum() / (count - 1)),  all in float64.
\* Values not all equal: the deviations cannot all be zero, and the result is
\* kept as the real number it approximates,
\*     sum((x - mean)^2) / (n - 1)  =  (n * sum(x^2) - sum(x)^2) / (n * (n - 1)).
\* Values all equal: every deviation is the gap between the float mean and
\* the value, k * 2^exp; the result is 0 when the gap is 0 (always so for
\* whole numbers of this size) and  sqrt(n * k^2 / (n - 1)) * 2^exp  otherwise.
Std(s, unit) ==
    LET n      == Len(s)
        spread == n * SumSquares(s) - Sum(s) * Sum(s)
    IN  IF n < 2 THEN NaN
        ELSE IF spread > 0 THEN Real(1, spread, n * (n - 1) * unit * unit)
        ELSE IF s[1] = 0 THEN Zero
        ELSE The({ Scaled(Real(1, n * gap.k * gap.k, n - 1), gap.exp) :
                   gap \in {MeanGap(s[1], unit, n)} })

\* (series > 0).mean() * 100
WinRate(s) == Ratio(100 * Cardinality({i \in 1..Len(s) : s[i] > 0}), Len(s))

-----------------------------------------------------------------------------
(* run_buy_and_hold, lines 80-101: the reduction of a monthly stock_pnl    *)
(* series to the "Buy & Hold" comparison row.                              *)

\* the drawdown taken on the monthly values, the cumulative sum left out
MaxDrawdown_Monthly(monthly_stock) ==
    SeqMax(SeqMinus(CumMax(monthly_stock), monthly_stock))

\* lines 84-87
MaxDrawdown(monthly_stock) ==
    LET cum_stock   == CumSum(monthly_stock)
        running_max == CumMax(cum_stock)
        drawdowns   == SeqMinus(running_max, cum_stock)
    IN  SeqMax(drawdowns)

\* line 90 and lines 210-213:  avg / vol if vol > 0 else 0
RiskAdjusted(avg, vol) == IF GtZero(vol) THEN Div(avg, vol) ELSE Zero

\* lines 82-101; monthly_stock holds the numerators of the stock_pnl column
BuyAndHoldRow(monthly_stock, unit) ==
    The({ [Strategy     |-> "Buy & Hold",
           FinalPnL     |-> Ratio(Sum(monthly_stock), unit),
           BuyHoldPnL   |-> Ratio(Sum(monthly_stock), unit),
           HedgePnL     |-> Zero,
           WinRate      |-> WinRate(monthly_stock),
           MaxDrawdown  |-> Ratio(MaxDrawdown(monthly_stock), unit),
           Volatility   |-> vol,
           RiskAdjusted |-> RiskAdjusted(Mean(monthly_stock, unit), vol)] :
          vol \in {Std(monthly_stock, unit)} })

-----------------------------------------------------------------------------
(* The external service's replies.  A reply has a status code and a body   *)
(* text; a 200 reply's JSON has "status", and "results" (the monthly       *)
(* stock_pnl series, values results[i] / unit) and "summary" when keys     *)
(* holds them.                                                             *)

Summary(avg, vol) ==
    [months                  |-> 12,
     hedge_pct_of_stock      |-> 10 * (12 * avg - 10),
     total_strategy_pl       |-> 12 * avg,
     total_stock_pl          |-> 10,
     total_hedge_pl          |-> 12 * avg - 10,
     win_rate_percent        |-> 50,
     max_drawdown            |-> 3,
     monthly_volatility      |-> vol,
     avg_monthly_strategy_pl |-> avg]

\* summaries the service is let to return: zero and positive volatility
Summaries == {Summary(1, 0), Summary(1, 1)}
NoSummary == Summary(0, 0)

\* non-200 replies; one has the very body text of the script's own notice
FailedReplies ==
    {[status |-> c, text |-> t, keys |-> {}, results |-> <<>>, unit |-> 1,
      summary |-> NoSummary] :
        <<c, t>> \in {<<500, "Internal Server Error">>, <<500, "No results returned!">>,
                      <<404, "Not Found">>}}

OkReplies(allSeries) ==
    {[status |-> 200, text |-> "{...}", keys |-> k,
      results |-> IF "results" \in k THEN r[2] ELSE <<>>,
      unit    |-> IF "results" \in k THEN r[1] ELSE 1,
      summary |-> IF "summary" \in k THEN m ELSE NoSummary] :
        k \in SUBSET {"results", "summary"}, r \in allSeries, m \in Summaries}

Replies == FailedReplies \cup OkReplies(AppSeries)

\* What the calling code reads of a reply: whether the status is 200, always;
\* of a 200 reply's JSON the fields named in wants, when present; the status
\* code and the body text of a non-200 reply when wants names "text" (the
\* single run prints them, line 176; the helpers of the comparison only test
\* status_code against 200).  code is 0 when the caller does not print it.
Read(resp, wants) ==
    LET got == IF resp.status = 200 THEN resp.keys \cap wants ELSE {}
    IN  [ok      |-> resp.status = 200,
         code    |-> IF resp.status # 200 /\ "text" \in wants THEN resp.status ELSE 0,
         text    |-> IF resp.status # 200 /\ "text" \in wants THEN resp.text ELSE "",
         keys    |-> got,
         results |-> IF "results" \in got THEN resp.results ELSE <<>>,
         unit    |-> IF "results" \in got THEN resp.unit ELSE 1,
         summary |-> IF "summary" \in got THEN resp.summary ELSE NoSummary]

-----------------------------------------------------------------------------
(* Request bodies.                                                         *)

BasePayload(strategy_name) ==
    [ticker |-> ticker, shares |-> shares, strategy |-> strategy_name]

\* the sidebar value passed on as it is, None included
OrDefault_Never(x, d) == x

\* Python's  x or d  on a slider value: d when x is None or zero
OrDefault(x, d) == IF x # None /\ x # 0 THEN x ELSE d

\* run_strategy, lines 56-64
StrategyPayload(strategy_name) ==
    LET payload == BasePayload(strategy_name)
    IN  IF strategy_name = "rolling_otm_puts"
          THEN payload @@ ("otm_percent" :> OrDefault(otm_percent, OtmDefault))
        ELSE IF strategy_name = "rolling_put_spread"
          THEN payload @@ ("spread_width_percent" :>
                              OrDefault(spread_width_percent, SpreadDefault))
        ELSE IF strategy_name = "rolling_collar"
          THEN payload @@ ("upside_cap_percent" :>
                              OrDefault(upside_cap_percent, CapDefault))
        ELSE IF strategy_name = "rolling_zero_cost_collar"
          THEN payload @@ ("coverage_ratio" :>
                              OrDefault(coverage_ratio, CoverageDefault))
        ELSE payload

\* run_buy_and_hold, line 72
BaselinePayload == BasePayload("rolling_atm_puts")

\* "Run Backtest", lines 105-117
SinglePayload ==
    LET p0 == BasePayload(strategy)
        p1 == IF otm_percent # None THEN p0 @@ ("otm_percent" :> otm_percent) ELSE p0
        p2 == IF spread_width_percent # None
                THEN p1 @@ ("spread_width_percent" :> spread_width_percent) ELSE p1
        p3 == IF upside_cap_percent # None
                THEN p2 @@ ("upside_cap_percent" :> upside_cap_percent) ELSE p2
    IN  IF coverage_ratio # None THEN p3 @@ ("coverage_ratio" :> coverage_ratio) ELSE p3

-----------------------------------------------------------------------------
(* What the script puts on the page, from line 104 on: every st.info,      *)
(* st.success, st.error, st.subheader, st.metric, st.dataframe and chart   *)
(* call, in the order the script makes them, each with the pieces its text *)
(* is formatted from.  A table or a chart is recorded as the call; what it *)
(* draws is the frame it is given (comp_results for the comparison).  The  *)
(* emoji of the texts are left out; the fixed title (line 9), the sidebar  *)
(* and the transient spinners are not part of the record.                  *)

\* f"{code}" of an integer
StatusText(code) == ToString(code)

\* format(n, ",") of an integer: digits in groups of three
RECURSIVE Grouped(_)
Grouped(n) ==
    IF n < 0 THEN "-" \o Grouped(-n)
    ELSE IF n < 1000 THEN ToString(n)
    ELSE Grouped(n \div 1000) \o ","
         \o (IF n % 1000 < 10 THEN "00" ELSE IF n % 1000 < 100 THEN "0" ELSE "")
         \o ToString(n % 1000)
\* f"${n:,.0f}" and f"{n:,.1f}%" of an integer-valued number
Dollars(n) == "$" \o Grouped(n)
Percent(n) == Grouped(n) \o ".0%"

Out(kind, text) == [kind |-> kind, text |-> text]
InfoNotice == Out("info", <<"Choose your strategy and click **Run Backtest**">>)   \* line 178
NoResultsError == Out("error", <<"No results returned!">>)                        \* line 174
StatusError(resp) ==                                                               \* line 176
    Out("error", <<"Error ", StatusText(resp.status), ": ", resp.text>>)
NoStrategyError == Out("error", <<"No strategy results returned.">>)              \* line 268
BestNotice(name) == Out("success", <<"Best Risk-Adjusted Strategy: ", name>>)      \* line 231
Uncaught(exc, what) == Out("exception", <<exc, what>>)
Subheader(title) == Out("subheader", <<title>>)
Metric(label, value) == Out("metric", <<label, value>>)

\* lines 128-158: the summary block of a single run
SummaryBlock(summary) ==
    <<Subheader("Summary"),
      Metric("Months Tested", ToString(summary.months)),
      Metric("Win Rate %", ToString(summary.win_rate_percent)),
      Metric("Buy & Hold Stock PnL", Dollars(summary.total_stock_pl)),
      Metric("Hedge Net PnL", Dollars(summary.total_hedge_pl)),
      Metric("Strategy Final PnL", Dollars(summary.total_strategy_pl)),
      Metric("Hedge vs Stock %", Percent(summary.hedge_pct_of_stock)),
      Metric("Max Drawdown", Dollars(summary.max_drawdown)),
      Metric("Monthly Volatility", Dollars(summary.monthly_volatility)),
      Subheader("Buy & Hold vs Strategy"),
      Out("bar_chart", <<>>)>>

\* lines 124-171: the page of a 200 reply with "results".  The frame of an
\* empty result list has no columns, so no "total_pnl"; every monthly record
\* of a non-empty list has it.
ResultsPage(resp) ==
    <<Out("success", <<"ok">>)>>
    \o (IF "summary" \in resp.keys THEN SummaryBlock(resp.summary) ELSE <<>>)
    \o <<Subheader("Detailed Monthly Results"), Out("dataframe", <<>>)>>
    \o (IF resp.results # <<>>
          THEN <<Subheader("Cumulative Strategy vs Stock PnL"), Out("line_chart", <<>>)>>
          ELSE <<>>)

\* the page of a single run that looks for "results" without the status test
SingleScreen_NoStatusTest(resp) ==
    IF "results" \in resp.keys THEN ResultsPage(resp) ELSE <<NoResultsError>>

\* "Run Backtest", lines 119-176: what one reply puts on the page
SingleScreen(resp) ==
    IF resp.status = 200
      THEN IF "results" \in resp.keys THEN ResultsPage(resp) ELSE <<NoResultsError>>
      ELSE <<StatusError(resp)>>

\* lines 217-265: the page of a comparison with rows, best being the strategy
\* of the first row of the sorted frame
ComparisonPage(best) ==
    <<Subheader("Multi-Strategy Comparison"), Out("dataframe", <<>>),
      BestNotice(best),
      Subheader("Final PnL Comparison"), Out("altair_chart", <<>>),
      Subheader("Max Drawdown Comparison"), Out("altair_chart", <<>>),
      Subheader("Volatility Comparison"), Out("altair_chart", <<>>)>>

-----------------------------------------------------------------------------
(* The two helpers of the comparison.                                      *)

NoRow == BuyAndHoldRow(<<0>>, 1)
Returned(kind, row) == [kind |-> kind, row |-> row]

\* run_buy_and_hold, lines 70-101: None, the row, or the KeyError that
\* df["stock_pnl"] raises on the column-less frame of an empty result list
run_buy_and_hold(resp) ==
    IF resp.status # 200 THEN Returned("None", NoRow)
    ELSE IF "results" \notin resp.keys THEN Returned("None", NoRow)
    ELSE IF resp.results = <<>> THEN Returned("KeyError", NoRow)
    ELSE Returned("row", BuyAndHoldRow(resp.results, resp.unit))

\* the test of line 200 without the look for "summary"
HasSummary_StatusOnly(resp) == resp.status = 200

\* run_strategy, lines 66-67, and the test of line 200
HasSummary(resp) == resp.status = 200 /\ "summary" \in resp.keys

\* the row put in front of the list
AddRow_Front(rows, row) == <<row>> \o rows

\* comp_results.append(row), lines 195 and 202
AddRow(rows, row) == Append(rows, row)

\* lines 201-214
StrategyRow(strat, summary) ==
    [Strategy     |-> strat,
     FinalPnL     |-> Int2Real(summary.total_strategy_pl),
     BuyHoldPnL   |-> Int2Real(summary.total_stock_pl),
     HedgePnL     |-> Int2Real(summary.total_hedge_pl),
     WinRate      |-> Int2Real(summary.win_rate_percent),
     MaxDrawdown  |-> Int2Real(summary.max_drawdown),
     Volatility   |-> Int2Real(summary.monthly_volatility),
     RiskAdjusted |-> RiskAdjusted(Int2Real(summary.avg_monthly_strategy_pl),
                                   Int2Real(summary.monthly_volatility))]

\* the sort made ascending: a row of minimal Risk-Adjusted value comes first
SortedFirst_Ascending(rows) ==
    {i \in 1..Len(rows) :
        \A j \in 1..Len(rows) : ~RealLess(rows[j].RiskAdjusted, rows[i].RiskAdjusted)}

\* line 230: sort_values("Risk-Adjusted", ascending=False).iloc[0].  The sort
\* runs with pandas' default kind, "quicksort", which is not a stable sort:
\* the first row of the result is a row of maximal Risk-Adjusted value, and
\* which one among equals is up to the sorting routine of the build.
SortedFirst(rows) ==
    {i \in 1..Len(rows) :
        \A j \in 1..Len(rows) : ~RealLess(rows[i].RiskAdjusted, rows[j].RiskAdjusted)}

-----------------------------------------------------------------------------
(* The state after the script's first run: default sidebar, no button.     *)

Init ==
    /\ strategy = "rolling_atm_puts"
    /\ otm_percent = None
    /\ spread_width_percent = None
    /\ upside_cap_percent = None
    /\ coverage_ratio = None
    /\ pc = "idle"
    /\ mode = "none"
    /\ idx = 0
    /\ sent = <<>>
    /\ replies = <<>>
    /\ comp_results = <<>>
    /\ screen = <<InfoNotice>>
    /\ fault = "none"
    /\ series = <<>>

\* the slider a strategy shows, lines 42-52
SliderChoices(s) ==
    IF s = "rolling_otm_puts" THEN OtmChoices
    ELSE IF s = "rolling_put_spread" THEN SpreadChoices
    ELSE IF s = "rolling_collar" THEN CapChoices
    ELSE IF s = "rolling_zero_cost_collar" THEN CoverageChoices
    ELSE {None}

\* A sidebar widget changes: the script reruns with neither button pressed
\* (lines 25-52, then line 178; the comparison block is skipped).
ChangeSidebar(s, v) ==
    /\ pc # "compare"
    /\ strategy' = s
    /\ otm_percent' = IF s = "rolling_otm_puts" THEN v ELSE None
    /\ spread_width_percent' = IF s = "rolling_put_spread" THEN v ELSE None
    /\ upside_cap_percent' = IF s = "rolling_collar" THEN v ELSE None
    /\ coverage_ratio' = IF s = "rolling_zero_cost_collar" THEN v ELSE None
    /\ pc' = "idle"
    /\ mode' = "none"
    /\ idx' = 0
    /\ sent' = <<>>
    /\ replies' = <<>>
    /\ comp_results' = <<>>
    /\ screen' = <<InfoNotice>>
    /\ fault' = "none"
    /\ UNCHANGED series

\* What the single run looks at in a reply: "results" (line 123) and the body
\* text (line 176); "summary" only inside the branch of a reply that has
\* "results" (line 128).
SingleWants(resp) ==
    {"results", "text"} \cup (IF "results" \in resp.keys THEN {"summary"} ELSE {})

\* "Run Backtest" pressed, lines 104-176; the comparison block is skipped.
\* The script keeps nothing from one run to the next but the sidebar, so a
\* button pressed on a finished page starts the run it starts on the idle
\* page; the model takes the presses from the idle page.
RunBacktest(resp) ==
    /\ pc = "idle"
    /\ pc' = "done"
    /\ mode' = "single"
    /\ idx' = 0
    /\ sent' = <<SinglePayload>>
    /\ replies' = <<Read(resp, SingleWants(resp))>>
    /\ comp_results' = <<>>
    /\ screen' = SingleScreen(resp)
    /\ fault' = "none"
    /\ UNCHANGED <<sidebar, series>>

\* "Compare ALL Strategies" pressed: line 178 (the other button is not
\* pressed), then lines 189-195, up to the first request of the loop.
CompareStart(resp) ==
    LET bh_metrics == run_buy_and_hold(resp)
    IN  /\ pc = "idle"
        /\ mode' = "compare"
        /\ sent' = <<BaselinePayload>>
        /\ replies' = <<Read(resp, {"results"})>>
        /\ comp_results' = IF bh_metrics.kind = "row"
                             THEN AddRow(<<>>, bh_metrics.row) ELSE <<>>
        /\ IF bh_metrics.kind = "KeyError"
             THEN /\ pc' = "done"
                  /\ idx' = 0
                  /\ fault' = "KeyError"
                  /\ screen' = <<InfoNotice, Uncaught("KeyError", "stock_pnl")>>
             ELSE /\ pc' = "compare"
                  /\ idx' = 1
                  /\ fault' = "none"
                  /\ screen' = <<InfoNotice>>
        /\ UNCHANGED <<sidebar, series>>

\* the announcement made without the test of line 216
Announce_Unguarded(rows, first) ==
    ComparisonPage(IF rows # <<>> THEN rows[first].Strategy ELSE "None")

\* lines 216-231 and 267-268: what the end of the comparison adds to the page
Announce(rows, first) ==
    IF rows # <<>> THEN ComparisonPage(rows[first].Strategy) ELSE <<NoStrategyError>>

\* One turn of the loop of lines 198-214: the request for ALL_STRATEGIES[idx]
\* and its reply; after the last strategy, lines 216-268.
CompareStep(resp) ==
    LET strat == ALL_STRATEGIES[idx]
        rows  == IF HasSummary(resp)
                   THEN AddRow(comp_results, StrategyRow(strat, resp.summary))
                   ELSE comp_results
    IN  /\ pc = "compare"
        /\ sent' = Append(sent, StrategyPayload(strat))
        /\ replies' = Append(replies, Read(resp, {"summary"}))
        /\ comp_results' = rows
        /\ IF idx < Len(ALL_STRATEGIES)
             THEN /\ idx' = idx + 1
                  /\ pc' = "compare"
                  /\ screen' = screen
             ELSE /\ idx' = idx
                  /\ pc' = "done"
                  /\ \E first \in (IF rows # <<>> THEN SortedFirst(rows) ELSE {0}) :
                        screen' = screen \o Announce(rows, first)
        /\ UNCHANGED <<sidebar, mode, fault, series>>

Next ==
    \/ \E s \in StrategyOptions : \E v \in SliderChoices(s) : ChangeSidebar(s, v)
    \/ \E resp \in Replies : RunBacktest(resp)
    \/ \E resp \in Replies : CompareStart(resp)
    \/ \E resp \in Replies : CompareStep(resp)

Spec == Init /\ [][Next]_vars

-----------------------------------------------------------------------------
(* The buy-and-hold reduction on its own: run_buy_and_hold applied to a    *)
(* 200 reply whose "results" is any series over the fixture's values.      *)

InitReduce ==
    /\ series \in SeriesUpTo(FixtureValues, MaxSeriesLen)
    /\ strategy = "rolling_atm_puts"
    /\ otm_percent = None
    /\ spread_width_percent = None
    /\ upside_cap_percent = None
    /\ coverage_ratio = None
    /\ pc = "idle"
    /\ mode = "none"
    /\ idx = 0
    /\ sent = <<>>
    /\ replies = <<>>
    /\ comp_results = <<>>
    /\ screen = <<>>
    /\ fault = "none"

Reduce ==
    LET resp == [status |-> 200, text |-> "{...}", keys |-> {"results"},
                 results |-> series, unit |-> 1, summary |-> NoSummary]
        bh_metrics == run_buy_and_hold(resp)
    IN  /\ pc = "idle"
        /\ pc' = "done"
        /\ mode' = "reduce"
        /\ sent' = <<BaselinePayload>>
        /\ replies' = <<Read(resp, {"results"})>>
        /\ comp_results' = IF bh_metrics.kind = "row" THEN <<bh_metrics.row>> ELSE <<>>
        /\ fault' = IF bh_metrics.kind = "KeyError" THEN "KeyError" ELSE "none"
        /\ UNCHANGED <<sidebar, idx, screen, series>>

SpecReduce == InitReduce /\ [][Reduce]_vars

-----------------------------------------------------------------------------
(* Properties.                                                             *)

N == Len(ALL_STRATEGIES)
CompareOver == mode = "compare" /\ pc = "done"
Succeeded(reply) == reply.ok /\ reply.keys # {}
\* number of strategy calls made so far in the current comparison
CallsMade == Len(replies) - 1
\* the strategy calls made so far that came back 200 with a summary
OkCalls == {i \in 1..CallsMade : Succeeded(replies[i + 1])}
RowNames == [i \in 1..Len(comp_results) |-> comp_results[i].Strategy]
StrategyRows == SelectSeq(comp_results, LAMBDA row : row.Strategy # "Buy & Hold")
RECURSIVE NamesOf(_, _)
\* ALL_STRATEGIES[from..CallsMade] restricted to the calls in OkCalls
NamesOf(from, ok) ==
    IF from > CallsMade THEN <<>>
    ELSE (IF from \in ok THEN <<ALL_STRATEGIES[from]>> ELSE <<>>) \o NamesOf(from + 1, ok)
RowFields == {"Strategy", "FinalPnL", "BuyHoldPnL", "HedgePnL", "WinRate",
              "MaxDrawdown", "Volatility", "RiskAdjusted"}

\* C1 (as claimed): a finished comparison in which every call that was made
\* came back 200 with the field the caller reads has exactly 6 rows; with
\* exactly one failed strategy call and every other call succeeding it has
\* exactly 5 rows, none of them the failed strategy's.
C1_SixRowsOrFive ==
    CompareOver =>
        /\ (\A i \in 1..Len(replies) : Succeeded(replies[i])) => Len(comp_results) = N + 1
        /\ (/\ Len(replies) = N + 1
            /\ Succeeded(replies[1])
            /\ Cardinality(OkCalls) = N - 1)
           => /\ Len(comp_results) = N
              /\ \A i \in (1..N) \ OkCalls :
                    \A j \in 1..Len(comp_results) : RowNames[j] # ALL_STRATEGIES[i]

\* C2: at every point of a comparison the strategy rows collected are exactly
\* one complete row per strategy call that came back 200 with a summary, in
\* call order (a failed call adds nothing and removes nothing); the requests
\* go out in the order of the fixed set whatever the earlier replies were;
\* and once a strategy call has been made the run ends only after all five,
\* with no exception.
C2_FailedCallsDropped ==
    mode = "compare" =>
        /\ [i \in 1..Len(StrategyRows) |-> StrategyRows[i].Strategy] = NamesOf(1, OkCalls)
        /\ \A i \in 1..Len(comp_results) : DOMAIN comp_results[i] = RowFields
        /\ \A i \in 1..CallsMade : sent[i + 1].strategy = ALL_STRATEGIES[i]
        /\ Len(sent) = Len(replies)
        /\ CallsMade >= 1 => fault = "none"
        /\ (pc = "done" /\ CallsMade >= 1) => CallsMade = N
        /\ (pc = "compare") => idx = CallsMade + 1

\* a comparison over, with a failed call followed by a successful one
C2_Witness ==
    /\ CompareOver
    /\ CallsMade = N
    /\ \E i \in 1..N : \E j \in 1..N :
          /\ i < j
          /\ ~replies[i + 1].ok
          /\ Succeeded(replies[j + 1])
    /\ \E i \in 1..N : replies[i + 1].ok /\ ~Succeeded(replies[i + 1])

\* C3: a single run whose reply is not 200 ends without an exception; what it
\* shows is an error made of the status code and the body text, and it is not
\* what a 200 reply without "results" shows.
C3_TransportFailureReported ==
    (mode = "single" /\ pc = "done" /\ ~replies[1].ok) =>
        /\ fault = "none"
        /\ Len(screen) = 1
        /\ screen[1].kind = "error"
        /\ replies[1].code \in {404, 500}
        /\ screen[1].text = <<"Error ", IF replies[1].code = 404 THEN "404" ELSE "500",
                               ": ", replies[1].text>>
        /\ screen[1] # NoResultsError
        /\ screen[1].text # <<"No results returned!">>

\* a single run answered 500 with the body "No results returned!"
C3_Witness ==
    /\ mode = "single" /\ pc = "done"
    /\ replies[1].code = 500
    /\ replies[1].text = "No results returned!"

\* a * b
Mul(a, b) == Scaled(Real(a.sgn * b.sgn, a.num * b.num, a.den * b.den), a.exp + b.exp)
Finite(a) == ~a.nan /\ a.den > 0 /\ a.num >= 0

\* the average and the volatility a row's Risk-Adjusted value is made from:
\* avg_monthly and vol of lines 88-89 (vol is the row's Volatility, line 99),
\* and the two summary fields of lines 211-213
RowAvg(i) ==
    IF comp_results[i].Strategy = "Buy & Hold"
      THEN Mean(replies[1].results, replies[1].unit)
    ELSE LET k == CHOOSE k \in 1..N : ALL_STRATEGIES[k] = comp_results[i].Strategy
         IN  Int2Real(replies[k + 1].summary.avg_monthly_strategy_pl)
RowVol(i) ==
    IF comp_results[i].Strategy = "Buy & Hold" THEN comp_results[i].Volatility
    ELSE LET k == CHOOSE k \in 1..N : ALL_STRATEGIES[k] = comp_results[i].Strategy
         IN  Int2Real(replies[k + 1].summary.monthly_volatility)

\* a series of one month, or of months all of one value
AllEqual(s) == \A i \in 1..Len(s) : s[i] = s[1]

\* C4 (as claimed): every row of a comparison has a finite Risk-Adjusted value
\* r with r * volatility = average when volatility > 0 and r = 0 otherwise;
\* and r = 0 for the Buy & Hold row of a single-month series and of a series
\* of all-equal values.
C4_RiskAdjustedDefined ==
    mode = "compare" =>
        \A i \in 1..Len(comp_results) :
            LET r == comp_results[i].RiskAdjusted
            IN  /\ Finite(r)
                /\ IF GtZero(RowVol(i)) THEN RealEq(Mul(r, RowVol(i)), RowAvg(i))
                                        ELSE r = Zero
                /\ (comp_results[i].Strategy = "Buy & Hold" /\ AllEqual(replies[1].results))
                      => r = Zero

\* the strategy named by the announcement that ends a comparison, if any
Announced == {r \in StrategyOptions \cup {"Buy & Hold", "None"} :
                 \E k \in 1..Len(screen) : screen[k] = BestNotice(r)}
IsMax(i) ==
    \A j \in 1..Len(comp_results) :
        ~RealLess(comp_results[i].RiskAdjusted, comp_results[j].RiskAdjusted)
\* the first row, in list order, of maximal Risk-Adjusted value
FirstMax == CHOOSE i \in 1..Len(comp_results) :
                IsMax(i) /\ \A j \in 1..(i - 1) : ~IsMax(j)

\* C5 (as claimed): the row announced at the end of a comparison with rows is
\* the row of maximal Risk-Adjusted value that comes first in the list.
C5_FirstSeenWins ==
    (CompareOver /\ comp_results # <<>>) =>
        Announced = {comp_results[FirstMax].Strategy}

\* C5 (amended): exactly one row is announced, and it is a row of maximal
\* Risk-Adjusted value: the first such row whenever no other row has an equal
\* value.
C5_MaximumWins ==
    (CompareOver /\ comp_results # <<>>) =>
        /\ Cardinality(Announced) = 1
        /\ \E i \in 1..Len(comp_results) :
              /\ IsMax(i)
              /\ Announced = {comp_results[i].Strategy}
        /\ Cardinality({i \in 1..Len(comp_results) : IsMax(i)}) = 1
              => Announced = {comp_results[FirstMax].Strategy}

\* a comparison over whose rows have different Risk-Adjusted values, the
\* largest one not in the first row
C5_Witness ==
    /\ CompareOver
    /\ Len(comp_results) >= 3
    /\ ~IsMax(1)
    /\ \E i \in 2..Len(comp_results) : Announced = {comp_results[i].Strategy}

\* C6: a comparison in which the baseline call and all five strategy calls
\* left no row announces no best strategy and shows the error
\* "No strategy results returned." (after the idle notice of line 178).
C6_EmptyComparisonReported ==
    (CompareOver /\ CallsMade = N /\ comp_results = <<>>) =>
        /\ Announced = {}
        /\ screen = <<InfoNotice, NoStrategyError>>
        /\ fault = "none"

\* all six calls made, none left a row
C6_Witness ==
    /\ CompareOver
    /\ CallsMade = N
    /\ comp_results = <<>>
    /\ \E i \in 1..Len(replies) : replies[i].ok
    /\ \E i \in 1..Len(replies) : ~replies[i].ok

\* position of a strategy in the fixed set
Position(name) == CHOOSE k \in 1..N : ALL_STRATEGIES[k] = name

\* C7: in a comparison the Buy & Hold row, when there is one, is the first
\* row, and the rows after it follow the order of the fixed strategy set.
C7_BuyAndHoldFirst ==
    mode = "compare" =>
        /\ \A i \in 1..Len(comp_results) :
              comp_results[i].Strategy = "Buy & Hold" => i = 1
        /\ \A i \in 1..Len(comp_results) : \A j \in 1..Len(comp_results) :
              (/\ i < j
               /\ comp_results[i].Strategy # "Buy & Hold"
               /\ comp_results[j].Strategy # "Buy & Hold")
              => Position(comp_results[i].Strategy) < Position(comp_results[j].Strategy)
        /\ (Len(replies) >= 1 /\ Succeeded(replies[1]) /\ fault = "none")
              => (comp_results # <<>> /\ comp_results[1].Strategy = "Buy & Hold")

\* a comparison over with the Buy & Hold row, some strategy dropped and at
\* least two strategy rows
C7_Witness ==
    /\ CompareOver
    /\ comp_results # <<>>
    /\ comp_results[1].Strategy = "Buy & Hold"
    /\ Len(comp_results) \in 3..N
    /\ ~replies[2].ok

\* the cumulative sum up to month i, and the largest of them up to month i
CumAt(s, i) == Sum(SubSeq(s, 1, i))
PeakAt(s, i) == CHOOSE m \in {CumAt(s, j) : j \in 1..i} :
                    \A j \in 1..i : m >= CumAt(s, j)

\* C8: for a non-empty series the Max Drawdown of the Buy & Hold row is the
\* largest, over the months, of the running peak of the cumulative sum minus
\* the cumulative sum; it is never negative, and it is 0 for one month.
C8_MaxDrawdown ==
    (mode = "reduce" /\ pc = "done" /\ series # <<>>) =>
        LET dd      == comp_results[1].MaxDrawdown
            Fall(i) == Int2Real(PeakAt(series, i) - CumAt(series, i))
        IN  /\ Len(comp_results) = 1
            /\ \A i \in 1..Len(series) : ~RealLess(dd, Fall(i))
            /\ \E i \in 1..Len(series) : dd = Fall(i)
            /\ ~RealLess(dd, Zero)
            /\ Len(series) = 1 => dd = Zero

\* reduced: a series that starts with a loss and has a later drawdown
C8_Witness ==
    /\ mode = "reduce" /\ pc = "done"
    /\ Len(series) >= 3
    /\ series[1] < 0
    /\ RealLess(Zero, comp_results[1].MaxDrawdown)

\* reduced: a single losing month
C8_WitnessSingle ==
    /\ mode = "reduce" /\ pc = "done"
    /\ Len(series) = 1 /\ series[1] < 0

Fixture == <<100, -50, 200, -20>>
FixtureReduced == mode = "reduce" /\ pc = "done" /\ series = Fixture

\* C9 (as claimed): the fixture reduces to total 230, win rate 50.0 and a max
\* drawdown of 70.
C9_FixtureDrawdown70 ==
    FixtureReduced =>
        /\ comp_results[1].FinalPnL = Int2Real(230)
        /\ RealEq(comp_results[1].WinRate, Int2Real(50))
        /\ comp_results[1].MaxDrawdown = Int2Real(70)

\* C9 (amended): the fixture reduces to total 230, win rate 50.0 and a max
\* drawdown of 50.
C9_FixtureDrawdown50 ==
    FixtureReduced =>
        /\ comp_results[1].FinalPnL = Int2Real(230)
        /\ comp_results[1].BuyHoldPnL = Int2Real(230)
        /\ RealEq(comp_results[1].WinRate, Int2Real(50))
        /\ comp_results[1].MaxDrawdown = Int2Real(50)

C9_Witness == FixtureReduced /\ Len(comp_results) = 1

\* the optional parameter a strategy's request may carry, and its default
ParamOf(name) ==
    IF name = "rolling_otm_puts" THEN {"otm_percent"}
    ELSE IF name = "rolling_put_spread" THEN {"spread_width_percent"}
    ELSE IF name = "rolling_collar" THEN {"upside_cap_percent"}
    ELSE IF name = "rolling_zero_cost_collar" THEN {"coverage_ratio"}
    ELSE {}
DefaultOf(key) ==
    IF key = "otm_percent" THEN 5
    ELSE IF key = "spread_width_percent" THEN 5
    ELSE IF key = "upside_cap_percent" THEN 10
    ELSE 100
SidebarValue(key) ==
    IF key = "otm_percent" THEN otm_percent
    ELSE IF key = "spread_width_percent" THEN spread_width_percent
    ELSE IF key = "upside_cap_percent" THEN upside_cap_percent
    ELSE coverage_ratio
Optional(p) == DOMAIN p \ {"ticker", "shares", "strategy"}

\* C10: every request body carries ticker, shares, strategy and at most the
\* one optional parameter of its strategy; the baseline request carries none;
\* in a comparison every strategy other than rolling_atm_puts carries its
\* parameter, with the sidebar's value when the sidebar sets it and the
\* default otherwise.
C10_OneOptionalParameter ==
    \A i \in 1..Len(sent) :
        LET p == sent[i]
        IN  /\ {"ticker", "shares", "strategy"} \subseteq DOMAIN p
            /\ Optional(p) \subseteq ParamOf(p.strategy)
            /\ Cardinality(Optional(p)) <= 1
            /\ (mode = "compare" /\ i = 1) => Optional(p) = {}
            /\ (mode = "compare" /\ i > 1) =>
                  /\ Optional(p) = ParamOf(p.strategy)
                  /\ \A key \in Optional(p) :
                        p[key] = IF SidebarValue(key) = None THEN DefaultOf(key)
                                 ELSE SidebarValue(key)

\* a comparison over under a sidebar that sets a non-default OTM percentage:
\* the OTM request carries it and the collar request carries the default
C10_Witness ==
    /\ CompareOver
    /\ Len(sent) = N + 1
    /\ otm_percent = 15
    /\ sent[3].otm_percent = 15
    /\ sent[5].upside_cap_percent = 10

\* a single run with the put-spread slider moved
C10_WitnessSingle ==
    /\ mode = "single" /\ pc = "done"
    /\ sent[1].strategy = "rolling_put_spread"
    /\ sent[1].spread_width_percent = 1

====
